---- MODULE Spec2Model ----
(***************************************************************************)
(* Model of the banking domain classes of src/app.js: Transaction,         *)
(* Account / SavingsAccount / CheckingAccount, Customer and Bank.          *)
(*                                                                         *)
(* Objects live in a heap: `accounts` maps an account number to the fields *)
(* of the Account object, `customers` is the Bank's _customers map (keys   *)
(* are the sequential customer ids, so the map is a sequence), and each    *)
(* customer's _accounts map is the sequence of its account numbers in      *)
(* insertion order.  The class-level counters are variables of their own.  *)
(*                                                                         *)
(* Money is a number of whole currency units.  The source computes with    *)
(* IEEE doubles; the one non-integral computation, calculateInterest,      *)
(* is taken to the model's unit by integer division.  Inputs are finite    *)
(* numbers.  A Transaction's description and timestamp are not modelled:   *)
(* no operation reads them.                                                *)
(*                                                                         *)
(* Every operation is one action: the whole call, up to its return or its  *)
(* throw.  `last` records the call just made: the operation, the Error it  *)
(* threw (or NoError) and what it returned.                                *)
(***************************************************************************)
EXTENDS Integers, Sequences, FiniteSets, TLC

VARIABLES instance, customers, accounts, idCounter, accountCounter,
          customerCounter, last, view

vars == <<instance, customers, accounts, idCounter, accountCounter,
          customerCounter, last, view>>

(* ------------------------------ bounds --------------------------------- *)

MaxCustomers == 2
MaxAccounts == 2
MaxTx == 3
MaxView == 2

(* --------------------------- program constants ------------------------- *)

dailyWithdrawalLimit == 1000
minBalance == 100
overdraftLimit == 500
monthlyFee == 10
InterestRatePercent == 2
FirstTransactionId == 1
FirstAccountNumber == 1000
FirstCustomerId == 1
StartingCapital == 1000000

(* ------------------------------ inputs --------------------------------- *)

Emails == {"john@example.com", "jane@example.com"}
BankArgs == {<<"OOP Bank", "Digital City">>}

(* What callers pass once the page has made its bank: the page's own       *)
(* arguments again, and getInstance's defaults.                            *)
LaterBankArgs == {<<"OOP Bank", "Digital City">>, <<"Default", "Unknown">>}
OpenRequests == {<<"savings", 0>>, <<"savings", 600>>, <<"Checking", -600>>,
                 <<"Checking", 0>>, <<"Checking", 600>>, <<"loan", 0>>}
Amounts == {-500, 0, 500, 501}
TransferAmounts == {0, 500, 501, 1001}

(* ------------------------------ errors --------------------------------- *)

NoError == "none"
InvalidAmountDeposit == "Deposit amount must be positive"
InvalidAmountWithdraw == "Withdrawal amount must be positive"
WithdrawalDenied == "Cannot withdraw. Insufficient funds or limit exceeded"
UnknownAccountType == "Unknown account type"
AccountNotFound == "One or both accounts not found"
SameAccountTransfer == "Cannot transfer to the same account"
DuplicateEmail == "Email already registered"

NoBank ==
    [bankName |-> "", location |-> "", bankBalance |-> 0, exists |-> FALSE,
     oid |-> 0]

(* --------------------------- Transaction ------------------------------- *)

Transaction(id, type, amount) ==
    [id |-> id, type |-> type, amount |-> amount, status |-> "pending"]

complete(t) == [t EXCEPT !.status = "completed"]

fail(t) == [t EXCEPT !.status = "failed"]

(* ----------------------------- Account --------------------------------- *)

(* Mutant: the new record goes to the front of the history. *)
addTransaction_Unshift(acc, id, type, amount) ==
    [acc EXCEPT !.transactions = <<complete(Transaction(id, type, amount))>> \o @]

addTransaction(acc, id, type, amount) ==
    [acc EXCEPT !.transactions = Append(@, complete(Transaction(id, type, amount)))]

NewAccount(number, customerId, initialBalance, accountType, id) ==
    addTransaction([accountNumber |-> number,
                    customerId |-> customerId,
                    balance |-> initialBalance,
                    accountType |-> accountType,
                    transactions |-> <<>>,
                    todayWithdrawn |-> 0],
                   id, "account_opening", initialBalance)

canWithdrawBase(acc, amount) ==
    /\ acc.balance >= amount
    /\ acc.todayWithdrawn + amount <= dailyWithdrawalLimit

(* Mutant: the minimum balance is not required. *)
canWithdrawSavings_NoMinimum(acc, amount) ==
    canWithdrawBase(acc, amount)

canWithdrawSavings(acc, amount) ==
    /\ canWithdrawBase(acc, amount)
    /\ acc.balance - amount >= minBalance

(* Mutant: the overdraft is not counted as available. *)
canWithdrawChecking_NoOverdraft(acc, amount) ==
    /\ acc.balance >= amount
    /\ acc.todayWithdrawn + amount <= dailyWithdrawalLimit

canWithdrawChecking(acc, amount) ==
    /\ acc.balance + overdraftLimit >= amount
    /\ acc.todayWithdrawn + amount <= dailyWithdrawalLimit

canWithdraw(acc, amount) ==
    IF acc.accountType = "savings"
    THEN canWithdrawSavings(acc, amount)
    ELSE canWithdrawChecking(acc, amount)

(* deposit and withdraw as functions of the account object: the Error      *)
(* thrown (or NoError), the object afterwards, and the number of           *)
(* Transaction objects the call constructed.                               *)

(* Mutant: a deposit of zero is let through. *)
depositCall_ZeroAllowed(acc, amount, id) ==
    IF amount < 0
    THEN [error |-> InvalidAmountDeposit, acc |-> acc, made |-> 0]
    ELSE [error |-> NoError,
          acc |-> addTransaction([acc EXCEPT !.balance = @ + amount],
                                 id, "deposit", amount),
          made |-> 1]

(* Mutant: a deposit above 500 is refused. *)
depositCall_Capped(acc, amount, id) ==
    IF amount <= 0 \/ amount > 500
    THEN [error |-> InvalidAmountDeposit, acc |-> acc, made |-> 0]
    ELSE [error |-> NoError,
          acc |-> addTransaction([acc EXCEPT !.balance = @ + amount],
                                 id, "deposit", amount),
          made |-> 1]

(* Mutant: a deposit starts a new day of withdrawals. *)
depositCall_NewDay(acc, amount, id) ==
    IF amount <= 0
    THEN [error |-> InvalidAmountDeposit, acc |-> acc, made |-> 0]
    ELSE [error |-> NoError,
          acc |-> addTransaction([acc EXCEPT !.balance = @ + amount,
                                             !.todayWithdrawn = 0],
                                 id, "deposit", amount),
          made |-> 1]

depositCall(acc, amount, id) ==
    IF amount <= 0
    THEN [error |-> InvalidAmountDeposit, acc |-> acc, made |-> 0]
    ELSE [error |-> NoError,
          acc |-> addTransaction([acc EXCEPT !.balance = @ + amount],
                                 id, "deposit", amount),
          made |-> 1]

(* Mutant: a denied withdrawal is recorded as a failed transaction. *)
withdrawCall_RecordsFailure(acc, amount, id) ==
    IF amount <= 0
    THEN [error |-> InvalidAmountWithdraw, acc |-> acc, made |-> 0]
    ELSE IF ~canWithdraw(acc, amount)
    THEN [error |-> WithdrawalDenied,
          acc |-> [acc EXCEPT !.transactions =
                      Append(@, fail(Transaction(id, "withdrawal", amount)))],
          made |-> 1]
    ELSE [error |-> NoError,
          acc |-> addTransaction([acc EXCEPT !.balance = @ - amount,
                                             !.todayWithdrawn = @ + amount],
                                 id, "withdrawal", amount),
          made |-> 1]

(* Mutant: a withdrawal does not add to todayWithdrawn. *)
withdrawCall_NoAccumulate(acc, amount, id) ==
    IF amount <= 0
    THEN [error |-> InvalidAmountWithdraw, acc |-> acc, made |-> 0]
    ELSE IF ~canWithdraw(acc, amount)
    THEN [error |-> WithdrawalDenied, acc |-> acc, made |-> 0]
    ELSE [error |-> NoError,
          acc |-> addTransaction([acc EXCEPT !.balance = @ - amount],
                                 id, "withdrawal", amount),
          made |-> 1]

withdrawCall(acc, amount, id) ==
    IF amount <= 0
    THEN [error |-> InvalidAmountWithdraw, acc |-> acc, made |-> 0]
    ELSE IF ~canWithdraw(acc, amount)
    THEN [error |-> WithdrawalDenied, acc |-> acc, made |-> 0]
    ELSE [error |-> NoError,
          acc |-> addTransaction([acc EXCEPT !.balance = @ - amount,
                                             !.todayWithdrawn = @ + amount],
                                 id, "withdrawal", amount),
          made |-> 1]

calculateInterest(acc, months) ==
    (acc.balance * InterestRatePercent * months) \div (100 * 12)

applyInterestCall(acc, months, id) ==
    addTransaction([acc EXCEPT !.balance = @ + calculateInterest(acc, months)],
                   id, "interest", calculateInterest(acc, months))

(* Mutant: the fee may be taken out of the overdraft. *)
chargeMonthlyFeeCall_FromOverdraft(acc, id) ==
    IF acc.balance + overdraftLimit >= monthlyFee
    THEN [charged |-> TRUE,
          acc |-> addTransaction([acc EXCEPT !.balance = @ - monthlyFee],
                                 id, "fee", -monthlyFee),
          made |-> 1]
    ELSE [charged |-> FALSE, acc |-> acc, made |-> 0]

(* Mutant: the fee is recorded with the positive amount. *)
chargeMonthlyFeeCall_PositiveRecord(acc, id) ==
    IF acc.balance >= monthlyFee
    THEN [charged |-> TRUE,
          acc |-> addTransaction([acc EXCEPT !.balance = @ - monthlyFee],
                                 id, "fee", monthlyFee),
          made |-> 1]
    ELSE [charged |-> FALSE, acc |-> acc, made |-> 0]

chargeMonthlyFeeCall(acc, id) ==
    IF acc.balance >= monthlyFee
    THEN [charged |-> TRUE,
          acc |-> addTransaction([acc EXCEPT !.balance = @ - monthlyFee],
                                 id, "fee", -monthlyFee),
          made |-> 1]
    ELSE [charged |-> FALSE, acc |-> acc, made |-> 0]

(* ----------------------------- Customer -------------------------------- *)

(* Mutant: the type is compared as typed. *)
ToLowerCase_AsTyped(s) == s

ToLowerCase(s) ==
    CASE s = "Checking" -> "checking"
      [] s = "SAVINGS" -> "savings"
      [] OTHER -> s

NewCustomer(id, email) ==
    [customerId |-> id, email |-> email, accounts |-> <<>>]

Range(seq) == {seq[i] : i \in DOMAIN seq}

(* Customer.getAccount: a lookup in the customer's own _accounts map. *)
HasAccount(cust, n) == n \in Range(cust.accounts)

RECURSIVE SumBalances(_, _)
SumBalances(heap, numbers) ==
    IF numbers = <<>> THEN 0
    ELSE heap[Head(numbers)].balance + SumBalances(heap, Tail(numbers))

getTotalBalance(heap, cust) == SumBalances(heap, cust.accounts)

(* Mutant: the destination is never credited; only the records are made. *)
transferCall_NoCredit(heap, cust, from, to, amount, id) ==
    IF ~HasAccount(cust, from) \/ ~HasAccount(cust, to)
    THEN [error |-> AccountNotFound, heap |-> heap, made |-> 0]
    ELSE IF from = to
    THEN [error |-> SameAccountTransfer, heap |-> heap, made |-> 0]
    ELSE LET w == withdrawCall(heap[from], amount, id)
             h1 == [heap EXCEPT ![from] = w.acc]
         IN IF w.error # NoError
            THEN [error |-> w.error, heap |-> h1, made |-> w.made]
            ELSE LET h2 == [h1 EXCEPT ![to] =
                              addTransaction(@, id + w.made, "deposit", amount)]
                     h3 == [h2 EXCEPT ![from] =
                              addTransaction(@, id + w.made + 1,
                                             "transfer_out", amount)]
                     h4 == [h3 EXCEPT ![to] =
                              addTransaction(@, id + w.made + 2,
                                             "transfer_in", amount)]
                 IN [error |-> NoError, heap |-> h4, made |-> w.made + 3]

(* Mutant: the destination is credited before the source is debited. *)
transferCall_DepositFirst(heap, cust, from, to, amount, id) ==
    IF ~HasAccount(cust, from) \/ ~HasAccount(cust, to)
    THEN [error |-> AccountNotFound, heap |-> heap, made |-> 0]
    ELSE IF from = to
    THEN [error |-> SameAccountTransfer, heap |-> heap, made |-> 0]
    ELSE LET d == depositCall(heap[to], amount, id)
             h1 == [heap EXCEPT ![to] = d.acc]
         IN IF d.error # NoError
            THEN [error |-> d.error, heap |-> h1, made |-> d.made]
            ELSE LET w == withdrawCall(h1[from], amount, id + d.made)
                     h2 == [h1 EXCEPT ![from] = w.acc]
                 IN IF w.error # NoError
                    THEN [error |-> w.error, heap |-> h2, made |-> d.made + w.made]
                    ELSE LET h3 == [h2 EXCEPT ![from] =
                                      addTransaction(@, id + d.made + w.made,
                                                     "transfer_out", amount)]
                             h4 == [h3 EXCEPT ![to] =
                                      addTransaction(@, id + d.made + w.made + 1,
                                                     "transfer_in", amount)]
                         IN [error |-> NoError, heap |-> h4,
                             made |-> d.made + w.made + 2]

(* Customer.transfer on the heap: the Error thrown (or NoError), the heap  *)
(* afterwards and the number of Transaction objects constructed.  The      *)
(* statements run in source order; a throw keeps what ran before it.       *)
(* Mutant: the two transfer records of a transfer carry one id. *)
transferCall_SharedId(heap, cust, from, to, amount, id) ==
    IF ~HasAccount(cust, from) \/ ~HasAccount(cust, to)
    THEN [error |-> AccountNotFound, heap |-> heap, made |-> 0]
    ELSE IF from = to
    THEN [error |-> SameAccountTransfer, heap |-> heap, made |-> 0]
    ELSE LET w == withdrawCall(heap[from], amount, id)
             h1 == [heap EXCEPT ![from] = w.acc]
         IN IF w.error # NoError
            THEN [error |-> w.error, heap |-> h1, made |-> w.made]
            ELSE LET d == depositCall(h1[to], amount, id + w.made)
                     h2 == [h1 EXCEPT ![to] = d.acc]
                 IN IF d.error # NoError
                    THEN [error |-> d.error, heap |-> h2, made |-> w.made + d.made]
                    ELSE LET h3 == [h2 EXCEPT ![from] =
                                      addTransaction(@, id + w.made + d.made,
                                                     "transfer_out", amount)]
                             h4 == [h3 EXCEPT ![to] =
                                      addTransaction(@, id + w.made + d.made,
                                                     "transfer_in", amount)]
                         IN [error |-> NoError, heap |-> h4,
                             made |-> w.made + d.made + 2]

(* Mutant: the two numbers are looked up among all accounts of the bank. *)
transferCall_AnyAccount(heap, cust, from, to, amount, id) ==
    IF from \notin DOMAIN heap \/ to \notin DOMAIN heap
    THEN [error |-> AccountNotFound, heap |-> heap, made |-> 0]
    ELSE IF from = to
    THEN [error |-> SameAccountTransfer, heap |-> heap, made |-> 0]
    ELSE LET w == withdrawCall(heap[from], amount, id)
             h1 == [heap EXCEPT ![from] = w.acc]
         IN IF w.error # NoError
            THEN [error |-> w.error, heap |-> h1, made |-> w.made]
            ELSE LET d == depositCall(h1[to], amount, id + w.made)
                     h2 == [h1 EXCEPT ![to] = d.acc]
                 IN IF d.error # NoError
                    THEN [error |-> d.error, heap |-> h2, made |-> w.made + d.made]
                    ELSE LET h3 == [h2 EXCEPT ![from] =
                                      addTransaction(@, id + w.made + d.made,
                                                     "transfer_out", amount)]
                             h4 == [h3 EXCEPT ![to] =
                                      addTransaction(@, id + w.made + d.made + 1,
                                                     "transfer_in", amount)]
                         IN [error |-> NoError, heap |-> h4,
                             made |-> w.made + d.made + 2]

transferCall(heap, cust, from, to, amount, id) ==
    IF ~HasAccount(cust, from) \/ ~HasAccount(cust, to)
    THEN [error |-> AccountNotFound, heap |-> heap, made |-> 0]
    ELSE IF from = to
    THEN [error |-> SameAccountTransfer, heap |-> heap, made |-> 0]
    ELSE LET w == withdrawCall(heap[from], amount, id)
             h1 == [heap EXCEPT ![from] = w.acc]
         IN IF w.error # NoError
            THEN [error |-> w.error, heap |-> h1, made |-> w.made]
            ELSE LET d == depositCall(h1[to], amount, id + w.made)
                     h2 == [h1 EXCEPT ![to] = d.acc]
                 IN IF d.error # NoError
                    THEN [error |-> d.error, heap |-> h2, made |-> w.made + d.made]
                    ELSE LET h3 == [h2 EXCEPT ![from] =
                                      addTransaction(@, id + w.made + d.made,
                                                     "transfer_out", amount)]
                             h4 == [h3 EXCEPT ![to] =
                                      addTransaction(@, id + w.made + d.made + 1,
                                                     "transfer_in", amount)]
                         IN [error |-> NoError, heap |-> h4,
                             made |-> w.made + d.made + 2]

(* ----------------------- a caller's view of a history ------------------ *)

(* What a caller holds before it has asked for any history. *)
NoView == [held |-> FALSE, refs |-> <<>>]

(* `get transactions()`: a new array holding the references the account's  *)
(* own array holds. A reference is the id of the Transaction object it     *)
(* points to; 0 stands for an object that is no recorded transaction.      *)
transactions(acc) ==
    [held |-> TRUE,
     refs |-> [i \in DOMAIN acc.transactions |-> acc.transactions[i].id]]

Reverse(seq) == [i \in DOMAIN seq |-> seq[Len(seq) + 1 - i]]

(* The heap after fail() on the Transaction object a reference points to:  *)
(* the object is the one the owning account's array points to.             *)
failObject(heap, ref) ==
    [n \in DOMAIN heap |->
       [heap[n] EXCEPT !.transactions =
          [k \in DOMAIN @ |-> IF @[k].id = ref THEN fail(@[k]) ELSE @[k]]]]

(* The heap after `object.amount = amount` on that object. *)
assignAmount(heap, ref, amount) ==
    [n \in DOMAIN heap |->
       [heap[n] EXCEPT !.transactions =
          [k \in DOMAIN @ |-> IF @[k].id = ref
                              THEN [@[k] EXCEPT !.amount = amount]
                              ELSE @[k]]]]

(* ------------------------------- Bank ---------------------------------- *)

(* The Bank object a run of the constructor body initialises; oid tells    *)
(* one Bank object from another.                                           *)
NewBank(name, location, oid) ==
    [bankName |-> name, location |-> location,
     bankBalance |-> StartingCapital, exists |-> TRUE, oid |-> oid]

constructBank_NoGuard(inst, name, location) ==
    NewBank(name, location, inst.oid + 1)

(* `new Bank(name, location)`: the object the expression yields, which the *)
(* constructor also leaves in Bank.instance.                               *)
constructBank(inst, name, location) ==
    IF inst.exists THEN inst ELSE NewBank(name, location, inst.oid + 1)

(* Bank.getInstance: Bank.instance after the call, which it returns. *)
getInstanceCall(inst, name, location) ==
    IF ~inst.exists THEN constructBank(inst, name, location) ELSE inst

(* The accounts the batch operations visit, in visiting order: customers   *)
(* in registration order, each customer's accounts in opening order.       *)
RECURSIVE AllAccountsInOrder(_)
AllAccountsInOrder(custs) ==
    IF custs = <<>> THEN <<>>
    ELSE Head(custs).accounts \o AllAccountsInOrder(Tail(custs))

(* The loop of Bank.applyInterestToAllSavingsAccounts over the accounts    *)
(* still to visit: the heap, bankBalance, totalInterest and the number of  *)
(* Transaction objects constructed when it ends.                           *)
(* Mutant: the loop ends at the first savings account it has paid. *)
RECURSIVE applyInterestLoop_FirstOnly(_, _, _, _, _)
applyInterestLoop_FirstOnly(heap, numbers, bankBalance, totalInterest, id) ==
    IF numbers = <<>> \/ totalInterest > 0
    THEN [heap |-> heap, bankBalance |-> bankBalance, total |-> totalInterest,
          nextId |-> id]
    ELSE LET n == Head(numbers) IN
         IF heap[n].accountType = "savings"
         THEN LET interest == calculateInterest(heap[n], 1) IN
              applyInterestLoop_FirstOnly(
                  [heap EXCEPT ![n] = applyInterestCall(@, 1, id)],
                  Tail(numbers), bankBalance - interest,
                  totalInterest + interest, id + 1)
         ELSE applyInterestLoop_FirstOnly(heap, Tail(numbers), bankBalance,
                                          totalInterest, id)

RECURSIVE applyInterestLoop(_, _, _, _, _)
applyInterestLoop(heap, numbers, bankBalance, totalInterest, id) ==
    IF numbers = <<>>
    THEN [heap |-> heap, bankBalance |-> bankBalance, total |-> totalInterest,
          nextId |-> id]
    ELSE LET n == Head(numbers) IN
         IF heap[n].accountType = "savings"
         THEN LET interest == calculateInterest(heap[n], 1) IN
              applyInterestLoop([heap EXCEPT ![n] = applyInterestCall(@, 1, id)],
                                Tail(numbers), bankBalance - interest,
                                totalInterest + interest, id + 1)
         ELSE applyInterestLoop(heap, Tail(numbers), bankBalance,
                                totalInterest, id)

(* Mutant: the fee is collected for every checking account visited,        *)
(* charged or not.                                                         *)
RECURSIVE chargeFeesLoop_CollectsAll(_, _, _, _, _)
chargeFeesLoop_CollectsAll(heap, numbers, bankBalance, feesCollected, id) ==
    IF numbers = <<>>
    THEN [heap |-> heap, bankBalance |-> bankBalance, total |-> feesCollected,
          nextId |-> id]
    ELSE LET n == Head(numbers) IN
         IF heap[n].accountType = "checking"
         THEN LET r == chargeMonthlyFeeCall(heap[n], id) IN
              chargeFeesLoop_CollectsAll([heap EXCEPT ![n] = r.acc],
                                         Tail(numbers), bankBalance + monthlyFee,
                                         feesCollected + monthlyFee, id + r.made)
         ELSE chargeFeesLoop_CollectsAll(heap, Tail(numbers), bankBalance,
                                         feesCollected, id)

(* The loop of Bank.chargeMonthlyFees, likewise. *)
RECURSIVE chargeFeesLoop(_, _, _, _, _)
chargeFeesLoop(heap, numbers, bankBalance, feesCollected, id) ==
    IF numbers = <<>>
    THEN [heap |-> heap, bankBalance |-> bankBalance, total |-> feesCollected,
          nextId |-> id]
    ELSE LET n == Head(numbers) IN
         IF heap[n].accountType = "checking"
         THEN LET r == chargeMonthlyFeeCall(heap[n], id) IN
              IF r.charged
              THEN chargeFeesLoop([heap EXCEPT ![n] = r.acc], Tail(numbers),
                                  bankBalance + monthlyFee,
                                  feesCollected + monthlyFee, id + r.made)
              ELSE chargeFeesLoop(heap, Tail(numbers), bankBalance,
                                  feesCollected, id)
         ELSE chargeFeesLoop(heap, Tail(numbers), bankBalance, feesCollected, id)

(* Mutant: the scan starts at the second customer. *)
EmailRegistered_SkipsFirst(custs, email) ==
    \E i \in DOMAIN custs : i > 1 /\ custs[i].email = email

EmailRegistered(custs, email) ==
    \E i \in DOMAIN custs : custs[i].email = email

(* ------------------------------ last call ------------------------------ *)

Call(op, error, ret, flag) ==
    [op |-> op, error |-> error, ret |-> ret, flag |-> flag]

(* ------------------------------- state --------------------------------- *)

Init ==
    /\ instance = NoBank
    /\ customers = <<>>
    /\ accounts = <<>>
    /\ idCounter = FirstTransactionId
    /\ accountCounter = FirstAccountNumber
    /\ customerCounter = FirstCustomerId
    /\ last = Call("load", NoError, <<>>, FALSE)
    /\ view = NoView

AccountNumbers == DOMAIN accounts

CustomerIds == DOMAIN customers

(* Bank.getInstance *)
GetInstance(name, location) ==
    /\ instance' = getInstanceCall(instance, name, location)
    /\ last' = Call("getInstance", NoError, <<instance'.oid>>, FALSE)
    /\ UNCHANGED <<view, customers, accounts, idCounter, accountCounter,
                   customerCounter>>

(* Bank.registerCustomer *)
RegisterCustomer(email) ==
    /\ instance.exists
    /\ customerCounter - FirstCustomerId < MaxCustomers
    /\ IF EmailRegistered(customers, email)
       THEN /\ last' = Call("registerCustomer", DuplicateEmail, <<>>, FALSE)
            /\ UNCHANGED <<customers, customerCounter>>
       ELSE /\ customers' = Append(customers, NewCustomer(customerCounter, email))
            /\ customerCounter' = customerCounter + 1
            /\ last' = Call("registerCustomer", NoError, <<customerCounter>>, FALSE)
    /\ UNCHANGED <<view, instance, accounts, idCounter, accountCounter>>

(* Customer.openAccount *)
OpenAccount(c, type, initialDeposit) ==
    /\ c \in CustomerIds
    /\ accountCounter - FirstAccountNumber < MaxAccounts
    /\ idCounter <= MaxTx
    /\ IF ToLowerCase(type) \in {"savings", "checking"}
       THEN /\ accounts' = accounts @@
                   (accountCounter :> NewAccount(accountCounter, c, initialDeposit,
                                                 ToLowerCase(type), idCounter))
            /\ accountCounter' = accountCounter + 1
            /\ idCounter' = idCounter + 1
            /\ customers' = [customers EXCEPT ![c].accounts = Append(@, accountCounter)]
            /\ last' = Call("openAccount", NoError, <<accountCounter>>, FALSE)
       ELSE /\ last' = Call("openAccount", UnknownAccountType, <<>>, FALSE)
            /\ UNCHANGED <<customers, accounts, idCounter, accountCounter>>
    /\ UNCHANGED <<view, instance, customerCounter>>

(* Account.deposit *)
Deposit(n, amount) ==
    /\ n \in AccountNumbers
    /\ idCounter <= MaxTx
    /\ LET r == depositCall(accounts[n], amount, idCounter) IN
        /\ last' = Call("deposit", r.error,
                        IF r.error = NoError THEN <<r.acc.balance>> ELSE <<>>,
                        FALSE)
        /\ accounts' = [accounts EXCEPT ![n] = r.acc]
        /\ idCounter' = idCounter + r.made
    /\ UNCHANGED <<view, instance, customers, accountCounter, customerCounter>>

(* Account.withdraw *)
Withdraw(n, amount) ==
    /\ n \in AccountNumbers
    /\ idCounter <= MaxTx
    /\ LET r == withdrawCall(accounts[n], amount, idCounter) IN
        /\ last' = Call("withdraw", r.error,
                        IF r.error = NoError THEN <<r.acc.balance>> ELSE <<>>,
                        FALSE)
        /\ accounts' = [accounts EXCEPT ![n] = r.acc]
        /\ idCounter' = idCounter + r.made
    /\ UNCHANGED <<view, instance, customers, accountCounter, customerCounter>>

(* SavingsAccount.applyInterest, months = 1 *)
ApplyInterest(n) ==
    /\ n \in AccountNumbers
    /\ accounts[n].accountType = "savings"
    /\ idCounter <= MaxTx
    /\ accounts' = [accounts EXCEPT ![n] = applyInterestCall(@, 1, idCounter)]
    /\ idCounter' = idCounter + 1
    /\ last' = Call("applyInterest", NoError,
                    <<calculateInterest(accounts[n], 1)>>, FALSE)
    /\ UNCHANGED <<view, instance, customers, accountCounter, customerCounter>>

(* CheckingAccount.chargeMonthlyFee *)
ChargeMonthlyFee(n) ==
    /\ n \in AccountNumbers
    /\ accounts[n].accountType = "checking"
    /\ idCounter <= MaxTx
    /\ LET r == chargeMonthlyFeeCall(accounts[n], idCounter) IN
        /\ last' = Call("chargeMonthlyFee", NoError, <<>>, r.charged)
        /\ accounts' = [accounts EXCEPT ![n] = r.acc]
        /\ idCounter' = idCounter + r.made
    /\ UNCHANGED <<view, instance, customers, accountCounter, customerCounter>>

(* Customer.transfer *)
Transfer(c, from, to, amount) ==
    /\ c \in CustomerIds
    /\ idCounter <= MaxTx
    /\ LET r == transferCall(accounts, customers[c], from, to, amount, idCounter) IN
        /\ last' = Call("transfer", r.error,
                        IF r.error = NoError
                        THEN <<r.heap[from].balance, r.heap[to].balance>>
                        ELSE <<>>,
                        FALSE)
        /\ accounts' = r.heap
        /\ idCounter' = idCounter + r.made
    /\ UNCHANGED <<view, instance, customers, accountCounter, customerCounter>>

(* new Bank(name, location) *)
ConstructBank(name, location) ==
    /\ instance' = constructBank(instance, name, location)
    /\ last' = Call("new Bank", NoError, <<instance'.oid>>, FALSE)
    /\ UNCHANGED <<view, customers, accounts, idCounter, accountCounter,
                   customerCounter>>

(* Bank.applyInterestToAllSavingsAccounts *)
ApplyInterestToAllSavingsAccounts ==
    /\ instance.exists
    /\ idCounter <= MaxTx
    /\ LET r == applyInterestLoop(accounts, AllAccountsInOrder(customers),
                                  instance.bankBalance, 0, idCounter) IN
        /\ last' = Call("applyInterestToAllSavingsAccounts", NoError,
                        <<r.total>>, FALSE)
        /\ accounts' = r.heap
        /\ instance' = [instance EXCEPT !.bankBalance = r.bankBalance]
        /\ idCounter' = r.nextId
    /\ UNCHANGED <<view, customers, accountCounter, customerCounter>>

(* Bank.chargeMonthlyFees *)
ChargeMonthlyFees ==
    /\ instance.exists
    /\ idCounter <= MaxTx
    /\ LET r == chargeFeesLoop(accounts, AllAccountsInOrder(customers),
                               instance.bankBalance, 0, idCounter) IN
        /\ last' = Call("chargeMonthlyFees", NoError, <<r.total>>, FALSE)
        /\ accounts' = r.heap
        /\ instance' = [instance EXCEPT !.bankBalance = r.bankBalance]
        /\ idCounter' = r.nextId
    /\ UNCHANGED <<view, customers, accountCounter, customerCounter>>

(* account.transactions *)
GetTransactions(n) ==
    /\ n \in AccountNumbers
    /\ view' = transactions(accounts[n])
    /\ last' = Call("transactions", NoError, <<n>>, FALSE)
    /\ UNCHANGED <<instance, customers, accounts, idCounter, accountCounter,
                   customerCounter>>

(* What a caller can do with the array it was returned: push an object of  *)
(* its own, pop, reverse.                                                  *)
ViewPush ==
    /\ view.held
    /\ Len(view.refs) < MaxView
    /\ view' = [view EXCEPT !.refs = Append(@, 0)]
    /\ last' = Call("view.push", NoError, <<>>, FALSE)
    /\ UNCHANGED <<instance, customers, accounts, idCounter, accountCounter,
                   customerCounter>>

ViewPop ==
    /\ view.held
    /\ view.refs # <<>>
    /\ view' = [view EXCEPT !.refs = SubSeq(@, 1, Len(@) - 1)]
    /\ last' = Call("view.pop", NoError, <<>>, FALSE)
    /\ UNCHANGED <<instance, customers, accounts, idCounter, accountCounter,
                   customerCounter>>

ViewReverse ==
    /\ view.held
    /\ view' = [view EXCEPT !.refs = Reverse(@)]
    /\ last' = Call("view.reverse", NoError, <<>>, FALSE)
    /\ UNCHANGED <<instance, customers, accounts, idCounter, accountCounter,
                   customerCounter>>

(* ... and with an entry of it: view[i].fail(), view[i].amount = amount.   *)
ViewFail(i) ==
    /\ view.held
    /\ i \in DOMAIN view.refs
    /\ accounts' = failObject(accounts, view.refs[i])
    /\ last' = Call("view[i].fail", NoError, <<>>, FALSE)
    /\ UNCHANGED <<view, instance, customers, idCounter, accountCounter,
                   customerCounter>>

ViewAssignAmount(i, amount) ==
    /\ view.held
    /\ i \in DOMAIN view.refs
    /\ accounts' = assignAmount(accounts, view.refs[i], amount)
    /\ last' = Call("view[i].amount=", NoError, <<>>, FALSE)
    /\ UNCHANGED <<view, instance, customers, idCounter, accountCounter,
                   customerCounter>>

(* The account numbers a caller may name: those handed out so far and one  *)
(* that no account has.                                                    *)
NamedAccounts == FirstAccountNumber .. accountCounter

Next ==
    \/ \E b \in BankArgs : GetInstance(b[1], b[2])
    \/ \E email \in Emails : RegisterCustomer(email)
    \/ \E c \in CustomerIds, r \in OpenRequests : OpenAccount(c, r[1], r[2])
    \/ \E n \in AccountNumbers, amount \in Amounts : Deposit(n, amount)
    \/ \E n \in AccountNumbers, amount \in Amounts : Withdraw(n, amount)
    \/ \E n \in AccountNumbers : ApplyInterest(n)
    \/ \E n \in AccountNumbers : ChargeMonthlyFee(n)
    \/ \E c \in CustomerIds, from \in NamedAccounts, to \in NamedAccounts,
          amount \in TransferAmounts : Transfer(c, from, to, amount)
    \/ ApplyInterestToAllSavingsAccounts
    \/ ChargeMonthlyFees

Spec == Init /\ [][Next]_vars

(* The program without Customer.transfer: accounts change only through     *)
(* deposit, withdraw, applyInterest and chargeMonthlyFee.                  *)
NextLedger ==
    \/ \E b \in BankArgs : GetInstance(b[1], b[2])
    \/ \E email \in Emails : RegisterCustomer(email)
    \/ \E c \in CustomerIds, r \in OpenRequests : OpenAccount(c, r[1], r[2])
    \/ \E n \in AccountNumbers, amount \in Amounts : Deposit(n, amount)
    \/ \E n \in AccountNumbers, amount \in Amounts : Withdraw(n, amount)
    \/ \E n \in AccountNumbers : ApplyInterest(n)
    \/ \E n \in AccountNumbers : ChargeMonthlyFee(n)

SpecLedger == Init /\ [][NextLedger]_vars

(* The bank object's life: any caller asking for the bank in either way,   *)
(* with either arguments, between the operations that change its customers *)
(* and its capital.                                                        *)
NextBank ==
    \/ \E a \in LaterBankArgs : GetInstance(a[1], a[2])
    \/ \E a \in LaterBankArgs : ConstructBank(a[1], a[2])
    \/ \E email \in Emails : RegisterCustomer(email)
    \/ \E c \in CustomerIds, r \in OpenRequests : OpenAccount(c, r[1], r[2])
    \/ ApplyInterestToAllSavingsAccounts
    \/ ChargeMonthlyFees

SpecBank == Init /\ [][NextBank]_vars

(* The openings and the amounts of the runs that spend a day's limit. *)
LimitOpenRequests == {<<"checking", 600>>, <<"savings", 600>>}

LimitAmounts == {500, 1000}

(* Every operation of the program, on accounts that can spend the daily    *)
(* limit in one or two withdrawals.                                        *)
NextLimit ==
    \/ \E a \in BankArgs : GetInstance(a[1], a[2])
    \/ \E email \in Emails : RegisterCustomer(email)
    \/ \E c \in CustomerIds, r \in LimitOpenRequests : OpenAccount(c, r[1], r[2])
    \/ \E n \in AccountNumbers, amount \in LimitAmounts : Deposit(n, amount)
    \/ \E n \in AccountNumbers, amount \in LimitAmounts : Withdraw(n, amount)
    \/ \E n \in AccountNumbers : ApplyInterest(n)
    \/ \E n \in AccountNumbers : ChargeMonthlyFee(n)
    \/ \E c \in CustomerIds, from \in NamedAccounts, to \in NamedAccounts,
          amount \in LimitAmounts : Transfer(c, from, to, amount)
    \/ ApplyInterestToAllSavingsAccounts
    \/ ChargeMonthlyFees

SpecLimit == Init /\ [][NextLimit]_vars

(* The openings and the amounts of the runs that follow a caller's view. *)
ViewOpenRequests == {<<"checking", 600>>, <<"savings", 0>>}

ViewAmounts == {500}

(* A caller that reads histories and works on what it was returned,       *)
(* between openings and deposits.                                          *)
NextView ==
    \/ \E a \in BankArgs : GetInstance(a[1], a[2])
    \/ \E email \in Emails : RegisterCustomer(email)
    \/ \E c \in CustomerIds, r \in ViewOpenRequests : OpenAccount(c, r[1], r[2])
    \/ \E n \in AccountNumbers, amount \in ViewAmounts : Deposit(n, amount)
    \/ \E n \in AccountNumbers : GetTransactions(n)
    \/ ViewPush
    \/ ViewPop
    \/ ViewReverse
    \/ \E i \in 1..(MaxTx + 1) : ViewFail(i)
    \/ \E i \in 1..(MaxTx + 1), amount \in ViewAmounts : ViewAssignAmount(i, amount)

SpecView == Init /\ [][NextView]_vars

(* ======================================================================= *)
(*                               Properties                                *)
(* ======================================================================= *)

(* The amount a record stands for in the balance: a withdrawal (and the    *)
(* transfer-specific record of a debit) carries the positive amount taken  *)
(* out; every other record carries its amount with its own sign (a fee is  *)
(* recorded negative).                                                     *)
SignedAmount(t) ==
    IF t.type \in {"withdrawal", "transfer_out"} THEN -t.amount ELSE t.amount

RECURSIVE SignedSum(_)
SignedSum(txs) ==
    IF txs = <<>> THEN 0
    ELSE (IF Head(txs).status = "completed" THEN SignedAmount(Head(txs)) ELSE 0)
         + SignedSum(Tail(txs))

Types(txs) == [i \in DOMAIN txs |-> txs[i].type]

AllCompleted(txs) == \A i \in DOMAIN txs : txs[i].status = "completed"

(* The records of txs2 beyond those of txs1, when txs1 is a prefix of it. *)
Extends(txs1, txs2) ==
    /\ Len(txs2) >= Len(txs1)
    /\ SubSeq(txs2, 1, Len(txs1)) = txs1

Added(txs1, txs2) == SubSeq(txs2, Len(txs1) + 1, Len(txs2))

(* C1: without transfers, after any sequence of deposit, withdraw,         *)
(* applyInterest and chargeMonthlyFee calls (successful or failing) every  *)
(* account's balance equals the signed sum of the amounts of the completed *)
(* transactions in its history.                                            *)
C1_BalanceIsSignedSum ==
    \A n \in AccountNumbers :
        accounts[n].balance = SignedSum(accounts[n].transactions)

C1_Witness ==
    \E n \in AccountNumbers :
        /\ "withdrawal" \in Range(Types(accounts[n].transactions))
        /\ "fee" \in Range(Types(accounts[n].transactions))
        /\ accounts[n].balance = 600 - 500 - 10

(* C2: a successful Customer.transfer(X, Y, A) between two distinct        *)
(* accounts of the customer takes exactly A from X's balance, adds exactly *)
(* A to Y's balance, appends to X's history a `withdrawal` then a          *)
(* `transfer_out` and to Y's a `deposit` then a `transfer_in` (four new    *)
(* records in all), and returns the two resulting balances.                *)
C2_TransferMovesAmount ==
    [][(last'.op = "transfer" /\ last'.error = NoError) =>
        \A c \in CustomerIds, X \in NamedAccounts, Y \in NamedAccounts,
          A \in TransferAmounts :
          Transfer(c, X, Y, A) =>
             /\ X # Y
             /\ HasAccount(customers[c], X) /\ HasAccount(customers[c], Y)
             /\ accounts'[X].balance = accounts[X].balance - A
             /\ accounts'[Y].balance = accounts[Y].balance + A
             /\ Extends(accounts[X].transactions, accounts'[X].transactions)
             /\ Extends(accounts[Y].transactions, accounts'[Y].transactions)
             /\ Types(Added(accounts[X].transactions, accounts'[X].transactions))
                    = <<"withdrawal", "transfer_out">>
             /\ Types(Added(accounts[Y].transactions, accounts'[Y].transactions))
                    = <<"deposit", "transfer_in">>
             /\ \A n \in AccountNumbers \ {X, Y} : accounts'[n] = accounts[n]
             /\ idCounter' = idCounter + 4
             /\ last'.ret = <<accounts'[X].balance, accounts'[Y].balance>>
      ]_vars

C2_Witness ==
    /\ last.op = "transfer"
    /\ last.error = NoError
    /\ \E n \in AccountNumbers :
          "transfer_in" \in Range(Types(accounts[n].transactions))

(* What the variants' withdrawal rules reject, stated from the balances:   *)
(* a non-positive amount, a daily total above the limit, a savings account *)
(* short of funds or left under its minimum, a checking account beyond its *)
(* overdraft.                                                              *)
WithdrawalRejected(acc, amount) ==
    \/ amount <= 0
    \/ acc.todayWithdrawn + amount > dailyWithdrawalLimit
    \/ acc.accountType = "savings" /\ acc.balance < amount
    \/ acc.accountType = "savings" /\ acc.balance - amount < minBalance
    \/ acc.accountType = "checking" /\ amount > acc.balance + overdraftLimit

(* C3: Customer.transfer fails, and leaves every account (balance,         *)
(* todayWithdrawn, history) as it was, whenever an account number is not   *)
(* among the customer's accounts (AccountNotFound), source and destination *)
(* are the same account (SameAccountTransfer), or the withdrawal from the  *)
(* source is rejected.                                                     *)
C3_FailedTransferChangesNothing ==
    /\ [][(last'.op = "transfer" /\ last'.error # NoError) =>
             accounts' = accounts /\ idCounter' = idCounter]_vars
    /\ [](\A c \in CustomerIds, X \in NamedAccounts, Y \in NamedAccounts,
             A \in TransferAmounts :
             LET present == HasAccount(customers[c], X) /\ HasAccount(customers[c], Y)
                 error == transferCall(accounts, customers[c], X, Y, A, idCounter).error
             IN /\ ~present => error = AccountNotFound
                /\ (present /\ X = Y) => error = SameAccountTransfer
                /\ (present /\ X # Y /\ WithdrawalRejected(accounts[X], A)) =>
                       error \in {InvalidAmountWithdraw, WithdrawalDenied})

C3_Witness ==
    /\ last.op = "transfer"
    /\ last.error = WithdrawalDenied

RECURSIVE SumOfType(_, _)
SumOfType(txs, type) ==
    IF txs = <<>> THEN 0
    ELSE (IF Head(txs).type = type THEN Head(txs).amount ELSE 0)
         + SumOfType(Tail(txs), type)

(* C4: an account's todayWithdrawn is the total of its successful          *)
(* withdrawals (those of transfers included) and never exceeds the daily   *)
(* limit of 1000; a withdraw(amount) that would take the total above 1000  *)
(* fails, whatever the balance and the amount.                             *)
C4_DailyLimit ==
    /\ [](\A n \in AccountNumbers :
            /\ accounts[n].todayWithdrawn <= dailyWithdrawalLimit
            /\ accounts[n].todayWithdrawn
                  = SumOfType(accounts[n].transactions, "withdrawal"))
    /\ [][last'.op = "withdraw" =>
          \A n \in AccountNumbers, amount \in Amounts :
            (Withdraw(n, amount)
               /\ accounts[n].todayWithdrawn + amount > dailyWithdrawalLimit) =>
                  /\ last'.error # NoError
                  /\ accounts' = accounts
         ]_vars

C4_Witness ==
    /\ last.op = "withdraw"
    /\ last.error = WithdrawalDenied
    /\ \E n \in AccountNumbers :
          /\ accounts[n].accountType = "checking"
          /\ accounts[n].todayWithdrawn = 501
          /\ accounts[n].balance + overdraftLimit >= 500

(* C5 as stated: on a checking account every withdraw(amount) with         *)
(* 0 < amount <= balance + overdraftLimit succeeds, and                    *)
(* withdraw(balance + overdraftLimit + 1) fails with WithdrawalDenied.     *)
C5_Original ==
    [][last'.op = "withdraw" =>
        \A n \in AccountNumbers, amount \in Amounts :
          (Withdraw(n, amount) /\ accounts[n].accountType = "checking") =>
             /\ (0 < amount /\ amount <= accounts[n].balance + overdraftLimit) =>
                    last'.error = NoError
             /\ amount = accounts[n].balance + overdraftLimit + 1 =>
                    last'.error = WithdrawalDenied
      ]_vars

(* C5 (amended): on a checking account every withdraw(amount) with         *)
(* 0 < amount <= balance + overdraftLimit that keeps todayWithdrawn within *)
(* the daily limit succeeds, and withdraw(balance + overdraftLimit + 1)    *)
(* fails: with WithdrawalDenied when that amount is positive, with         *)
(* InvalidAmount when it is not.                                           *)
C5_CheckingOverdraft ==
    [][last'.op = "withdraw" =>
        \A n \in AccountNumbers, amount \in Amounts :
          (Withdraw(n, amount) /\ accounts[n].accountType = "checking") =>
             /\ (/\ 0 < amount
                 /\ amount <= accounts[n].balance + overdraftLimit
                 /\ accounts[n].todayWithdrawn + amount <= dailyWithdrawalLimit) =>
                    /\ last'.error = NoError
                    /\ accounts'[n].balance = accounts[n].balance - amount
             /\ amount = accounts[n].balance + overdraftLimit + 1 =>
                    /\ last'.error = (IF amount > 0 THEN WithdrawalDenied
                                                  ELSE InvalidAmountWithdraw)
                    /\ accounts' = accounts
      ]_vars

(* A checking account drawn to the very end of its overdraft by the last   *)
(* call.                                                                   *)
C5_Witness ==
    /\ last.op = "withdraw"
    /\ last.error = NoError
    /\ \E n \in AccountNumbers :
          /\ accounts[n].accountType = "checking"
          /\ accounts[n].balance = -overdraftLimit
          /\ last.ret = <<accounts[n].balance>>

(* C6: a checking account's balance is never below -overdraftLimit. *)
C6_OverdraftFloor ==
    \A n \in AccountNumbers :
        accounts[n].accountType = "checking" =>
            accounts[n].balance >= -overdraftLimit

(* C7 as stated: on a savings account any withdraw(amount) with            *)
(* balance - amount < minBalance fails with WithdrawalDenied, and after    *)
(* every successful withdrawal (direct or the source leg of a transfer)    *)
(* the balance is at least minBalance.                                     *)
C7_Original ==
    [][last'.op \in {"withdraw", "transfer"} =>
        /\ \A n \in AccountNumbers, amount \in Amounts :
              (Withdraw(n, amount) /\ accounts[n].accountType = "savings") =>
                 /\ accounts[n].balance - amount < minBalance =>
                        last'.error = WithdrawalDenied
                 /\ last'.error = NoError => accounts'[n].balance >= minBalance
        /\ last'.error = NoError =>
              \A c \in CustomerIds, X \in NamedAccounts, Y \in NamedAccounts,
                 A \in TransferAmounts :
                 (Transfer(c, X, Y, A) /\ accounts[X].accountType = "savings") =>
                    accounts'[X].balance >= minBalance
      ]_vars

(* C7 (amended): on a savings account any withdraw(amount) with a positive *)
(* amount and balance - amount < minBalance fails with WithdrawalDenied (a *)
(* non-positive amount fails with InvalidAmount), nothing is debited, and  *)
(* after every successful withdrawal (direct or the source leg of a        *)
(* transfer) the balance is at least minBalance.                           *)
C7_SavingsMinimum ==
    [][last'.op \in {"withdraw", "transfer"} =>
        /\ \A n \in AccountNumbers, amount \in Amounts :
              (Withdraw(n, amount) /\ accounts[n].accountType = "savings") =>
                 /\ accounts[n].balance - amount < minBalance =>
                        /\ last'.error = (IF amount > 0 THEN WithdrawalDenied
                                                      ELSE InvalidAmountWithdraw)
                        /\ accounts' = accounts
                 /\ last'.error = NoError => accounts'[n].balance >= minBalance
        /\ last'.error = NoError =>
              \A c \in CustomerIds, X \in NamedAccounts, Y \in NamedAccounts,
                 A \in TransferAmounts :
                 (Transfer(c, X, Y, A) /\ accounts[X].accountType = "savings") =>
                    accounts'[X].balance >= minBalance
      ]_vars

(* A savings account that has just refused a withdrawal its funds and its  *)
(* daily total would both allow.                                           *)
C7_Witness ==
    /\ last.op = "withdraw"
    /\ last.error = WithdrawalDenied
    /\ \E n \in AccountNumbers :
          /\ accounts[n].accountType = "savings"
          /\ accounts[n].balance = 600
          /\ accounts[n].todayWithdrawn = 0

(* C8: deposit(amount) with amount <= 0 fails with InvalidAmount and       *)
(* changes neither balance nor history; with amount > 0 it does not fail,  *)
(* adds exactly amount to the balance and appends exactly one completed    *)
(* `deposit` transaction.                                                  *)
C8_Deposit ==
    [][last'.op = "deposit" =>
        \A n \in AccountNumbers, amount \in Amounts :
          Deposit(n, amount) =>
             IF amount <= 0
             THEN /\ last'.error = InvalidAmountDeposit
                  /\ accounts' = accounts
             ELSE /\ last'.error = NoError
                  /\ accounts'[n].balance = accounts[n].balance + amount
                  /\ Extends(accounts[n].transactions, accounts'[n].transactions)
                  /\ Added(accounts[n].transactions, accounts'[n].transactions)
                        = <<[id |-> idCounter, type |-> "deposit",
                             amount |-> amount, status |-> "completed"]>>
                  /\ accounts'[n].todayWithdrawn = accounts[n].todayWithdrawn
                  /\ \A m \in AccountNumbers \ {n} : accounts'[m] = accounts[m]
      ]_vars

C8_Witness ==
    /\ last.op = "deposit"
    /\ last.error = InvalidAmountDeposit

(* C9: a failing withdraw (amount <= 0, or the variant's rule refusing it) *)
(* on either variant changes no balance, no todayWithdrawn and no history, *)
(* and no history ever holds a failed or pending transaction.              *)
C9_FailedWithdrawChangesNothing ==
    /\ [](\A n \in AccountNumbers : AllCompleted(accounts[n].transactions))
    /\ [][last'.op = "withdraw" =>
            /\ last'.error # NoError =>
                   accounts' = accounts /\ idCounter' = idCounter
            /\ \A n \in AccountNumbers, amount \in Amounts :
                  (Withdraw(n, amount) /\ WithdrawalRejected(accounts[n], amount)) =>
                     last'.error \in {InvalidAmountWithdraw, WithdrawalDenied}
         ]_vars

C9_Witness ==
    /\ last.op = "withdraw"
    /\ last.error = WithdrawalDenied
    /\ \E n \in AccountNumbers : accounts[n].accountType = "savings"
    /\ \E n \in AccountNumbers : accounts[n].accountType = "checking"

(* C10: no two registered customers have the same email; registerCustomer  *)
(* with the email of an existing customer fails with DuplicateEmail and    *)
(* leaves the customers and their number as they were.                     *)
C10_UniqueEmails ==
    /\ [](\A i \in CustomerIds, j \in CustomerIds :
            i # j => customers[i].email # customers[j].email)
    /\ [][last'.op = "registerCustomer" =>
            \A email \in Emails :
              (RegisterCustomer(email)
                 /\ \E i \in CustomerIds : customers[i].email = email) =>
                    /\ last'.error = DuplicateEmail
                    /\ customers' = customers
                    /\ Len(customers') = Len(customers)
                    /\ customerCounter' = customerCounter
         ]_vars

C10_Witness ==
    /\ last.op = "registerCustomer"
    /\ last.error = DuplicateEmail
    /\ Len(customers) = 1

(* C11: at most one Bank exists: whichever way it is asked for, with       *)
(* whatever arguments, every request after the first yields the object the *)
(* first one made, and leaves its name, location, customers and            *)
(* bankBalance as they were; no step ever replaces that object.            *)
C11_Singleton ==
    [][instance.exists =>
         /\ instance'.exists
         /\ instance'.oid = instance.oid
         /\ instance'.bankName = instance.bankName
         /\ instance'.location = instance.location
         /\ last'.op \in {"getInstance", "new Bank"} =>
               /\ last'.ret = <<instance.oid>>
               /\ instance' = instance
               /\ customers' = customers
               /\ accounts' = accounts
      ]_vars

C11_Witness ==
    /\ last.op = "new Bank"
    /\ instance.exists
    /\ instance.bankBalance # StartingCapital
    /\ customers # <<>>

(* The sum of f over the finite set S. *)
RECURSIVE SumOf(_, _)
SumOf(f, S) ==
    IF S = {} THEN 0
    ELSE LET x == CHOOSE y \in S : TRUE IN f[x] + SumOf(f, S \ {x})

(* One month of interest on a balance at the yearly rate, in whole units:  *)
(* balance * rate / 12 with the fraction of a unit dropped.                *)
IsMonthlyInterest(interest, balance) ==
    /\ interest * 100 * 12 <= balance * InterestRatePercent
    /\ balance * InterestRatePercent < (interest + 1) * 100 * 12

(* C12: Bank.applyInterestToAllSavingsAccounts adds one month of interest  *)
(* on its balance to every savings account of every customer, once, and    *)
(* records it there as one completed `interest` transaction of that        *)
(* amount; it leaves every checking account as it was, takes the total     *)
(* paid from bankBalance and returns that total.                           *)
C12_InterestBatch ==
    [][last'.op = "applyInterestToAllSavingsAccounts" =>
        LET paid == [n \in AccountNumbers |->
                        accounts'[n].balance - accounts[n].balance]
        IN
        /\ DOMAIN accounts' = DOMAIN accounts
        /\ \A c \in CustomerIds : \A k \in DOMAIN customers[c].accounts :
              LET n == customers[c].accounts[k]
                  added == Added(accounts[n].transactions, accounts'[n].transactions)
              IN
              IF accounts[n].accountType = "savings"
              THEN /\ IsMonthlyInterest(paid[n], accounts[n].balance)
                   /\ Extends(accounts[n].transactions, accounts'[n].transactions)
                   /\ Len(added) = 1
                   /\ added[1].type = "interest"
                   /\ added[1].amount = paid[n]
                   /\ added[1].status = "completed"
                   /\ accounts'[n].todayWithdrawn = accounts[n].todayWithdrawn
              ELSE accounts'[n] = accounts[n]
        /\ instance'.bankBalance = instance.bankBalance - SumOf(paid, AccountNumbers)
        /\ last'.ret = <<SumOf(paid, AccountNumbers)>>
        /\ customers' = customers
      ]_vars

C12_Witness ==
    /\ last.op = "applyInterestToAllSavingsAccounts"
    /\ last.ret = <<2>>
    /\ instance.bankBalance = StartingCapital - 2
    /\ \A c \in CustomerIds : Len(customers[c].accounts) = 1

(* C13: chargeMonthlyFee on a checking account whose balance is below the  *)
(* fee returns false and leaves balance and history as they were; with a   *)
(* balance of at least the fee it returns true, takes exactly the fee from *)
(* the balance and appends one completed `fee` transaction whose amount is *)
(* the fee negated; so a fee never makes a balance negative.               *)
C13_MonthlyFee ==
    [][last'.op = "chargeMonthlyFee" =>
        \A n \in AccountNumbers :
          ChargeMonthlyFee(n) =>
            LET added == Added(accounts[n].transactions, accounts'[n].transactions)
            IN
            /\ \A m \in AccountNumbers \ {n} : accounts'[m] = accounts[m]
            /\ IF accounts[n].balance < monthlyFee
               THEN /\ last'.flag = FALSE
                    /\ accounts'[n] = accounts[n]
               ELSE /\ last'.flag = TRUE
                    /\ accounts'[n].balance = accounts[n].balance - monthlyFee
                    /\ accounts'[n].balance >= 0
                    /\ Extends(accounts[n].transactions, accounts'[n].transactions)
                    /\ Len(added) = 1
                    /\ added[1].type = "fee"
                    /\ added[1].amount = -monthlyFee
                    /\ added[1].status = "completed"
                    /\ accounts'[n].todayWithdrawn = accounts[n].todayWithdrawn
      ]_vars

(* A fee taken from one checking account beside another too poor to pay. *)
C13_Witness ==
    /\ last.op = "chargeMonthlyFee"
    /\ last.flag = TRUE
    /\ \E n, m \in AccountNumbers :
          /\ Types(accounts[n].transactions) = <<"account_opening", "fee">>
          /\ accounts[n].balance = 600 - monthlyFee
          /\ accounts[m].accountType = "checking"
          /\ accounts[m].balance = 0

(* The checking accounts that can pay the monthly fee. *)
FeePayers ==
    {n \in AccountNumbers : /\ accounts[n].accountType = "checking"
                            /\ accounts[n].balance >= monthlyFee}

(* C14: Bank.chargeMonthlyFees charges the fee exactly once to every       *)
(* checking account whose balance is at least the fee, leaves checking     *)
(* accounts with less and all savings accounts as they were, adds the fee  *)
(* times the number of accounts charged to bankBalance and returns that    *)
(* total.                                                                  *)
C14_FeeBatch ==
    [][last'.op = "chargeMonthlyFees" =>
        /\ DOMAIN accounts' = DOMAIN accounts
        /\ \A n \in AccountNumbers :
              LET added == Added(accounts[n].transactions, accounts'[n].transactions)
              IN
              IF n \in FeePayers
              THEN /\ accounts'[n].balance = accounts[n].balance - monthlyFee
                   /\ Extends(accounts[n].transactions, accounts'[n].transactions)
                   /\ Types(added) = <<"fee">>
                   /\ added[1].amount = -monthlyFee
                   /\ added[1].status = "completed"
                   /\ accounts'[n].todayWithdrawn = accounts[n].todayWithdrawn
              ELSE accounts'[n] = accounts[n]
        /\ instance'.bankBalance =
              instance.bankBalance + monthlyFee * Cardinality(FeePayers)
        /\ last'.ret = <<monthlyFee * Cardinality(FeePayers)>>
        /\ customers' = customers
      ]_vars

C14_Witness ==
    /\ last.op = "chargeMonthlyFees"
    /\ last.ret = <<monthlyFee>>
    /\ instance.bankBalance = StartingCapital + monthlyFee
    /\ \E n, m \in AccountNumbers :
          /\ Types(accounts[n].transactions) = <<"account_opening", "fee">>
          /\ accounts[m].accountType = "checking"
          /\ accounts[m].balance = 0

(* C15: in every reachable state, those reached through successful        *)
(* transfers included, the balance of every account of every customer is   *)
(* the signed sum of the amounts of the completed transactions recorded on *)
(* it since its opening: every change of a balance comes with exactly one  *)
(* appended completed transaction.                                         *)
C15_LedgerWithTransfers ==
    \A c \in CustomerIds : \A k \in DOMAIN customers[c].accounts :
        LET acc == accounts[customers[c].accounts[k]] IN
        /\ AllCompleted(acc.transactions)
        /\ acc.balance = SignedSum(acc.transactions)

SavingsSpellings == {"savings", "Savings", "SAVINGS"}

CheckingSpellings == {"checking", "Checking", "CHECKING"}

(* C17: openAccount with a type that is `savings` or `checking` in any     *)
(* letter case creates an account of that variant under a number no        *)
(* account had, with balance equal to the initial deposit, nothing         *)
(* withdrawn today and a history of exactly one completed                  *)
(* `account_opening` record of the initial deposit (also when that is      *)
(* zero), and adds it to the calling customer's accounts, which grow by    *)
(* one; with any other type it fails with UnknownAccountType and the       *)
(* customer's accounts stay as they were.                                  *)
C17_OpenAccount ==
    [][last'.op = "openAccount" =>
        \A c \in CustomerIds, r \in OpenRequests :
          OpenAccount(c, r[1], r[2]) =>
            IF r[1] \in SavingsSpellings \cup CheckingSpellings
            THEN /\ last'.error = NoError
                 /\ \E n \in DOMAIN accounts' \ DOMAIN accounts :
                       /\ DOMAIN accounts' = DOMAIN accounts \cup {n}
                       /\ last'.ret = <<n>>
                       /\ accounts'[n].accountNumber = n
                       /\ accounts'[n].accountType =
                             IF r[1] \in SavingsSpellings THEN "savings"
                                                         ELSE "checking"
                       /\ accounts'[n].balance = r[2]
                       /\ accounts'[n].todayWithdrawn = 0
                       /\ Len(accounts'[n].transactions) = 1
                       /\ accounts'[n].transactions[1].type = "account_opening"
                       /\ accounts'[n].transactions[1].amount = r[2]
                       /\ accounts'[n].transactions[1].status = "completed"
                       /\ customers'[c].accounts = Append(customers[c].accounts, n)
                 /\ \A d \in CustomerIds \ {c} : customers'[d] = customers[d]
                 /\ \A m \in DOMAIN accounts : accounts'[m] = accounts[m]
            ELSE /\ last'.error = UnknownAccountType
                 /\ customers' = customers
                 /\ accounts' = accounts
                 /\ accountCounter' = accountCounter
                 /\ idCounter' = idCounter
      ]_vars

(* A second account opened with nothing in it. *)
C17_Witness ==
    /\ last.op = "openAccount"
    /\ last.error = NoError
    /\ accounts[last.ret[1]].balance = 0
    /\ accounts[last.ret[1]].accountType = "checking"
    /\ \E c \in CustomerIds :
          /\ Len(customers[c].accounts) = 2
          /\ customers[c].accounts[2] = last.ret[1]

(* Every recorded transaction, as the pair of its account and its place   *)
(* in that account's history.                                              *)
Recorded ==
    UNION {{<<n, i>> : i \in DOMAIN accounts[n].transactions} :
             n \in AccountNumbers}

TransactionAt(p) == accounts[p[1]].transactions[p[2]]

(* C18: transaction ids come from one counter shared by all accounts: any  *)
(* two recorded transactions, on the same account or on different ones,    *)
(* have different ids, every id was handed out before the counter's        *)
(* current value, and within each history the ids strictly increase.       *)
C18_TransactionIds ==
    /\ \A p, q \in Recorded :
          p # q => TransactionAt(p).id # TransactionAt(q).id
    /\ \A p \in Recorded :
          /\ TransactionAt(p).id >= FirstTransactionId
          /\ TransactionAt(p).id < idCounter
    /\ \A n \in AccountNumbers :
          \A i, j \in DOMAIN accounts[n].transactions :
             i < j => accounts[n].transactions[i].id < accounts[n].transactions[j].id

(* Two histories whose ids interleave after a transfer. *)
C18_Witness ==
    /\ last.op = "transfer"
    /\ last.error = NoError
    /\ \E n, m \in AccountNumbers :
          /\ accounts[n].transactions[1].id < accounts[m].transactions[1].id
          /\ Len(accounts[n].transactions) = 3
          /\ Len(accounts[m].transactions) = 3
          /\ accounts[m].transactions[2].id < accounts[n].transactions[3].id

(* C19: the history the read accessor returns is a copy: nothing a caller  *)
(* does through it (adding, removing or reordering its entries, changing   *)
(* an entry's status or amount) changes the history any account records.   *)
C19_DefensiveCopy ==
    [][last'.op \in {"view.push", "view.pop", "view.reverse",
                     "view[i].fail", "view[i].amount="} =>
         accounts' = accounts
      ]_vars

(* C20: no operation resets or lowers todayWithdrawn: along every run it   *)
(* never decreases on any account; so from the moment an account's         *)
(* todayWithdrawn has reached the daily limit, every withdraw from it and  *)
(* every transfer out of it fails, whatever its balance.                   *)
C20_NoReset ==
    /\ [][\A n \in DOMAIN accounts :
            /\ n \in DOMAIN accounts'
            /\ accounts'[n].todayWithdrawn >= accounts[n].todayWithdrawn
         ]_vars
    /\ [](\A n \in AccountNumbers :
            accounts[n].todayWithdrawn >= dailyWithdrawalLimit =>
              /\ \A amount \in Amounts \cup LimitAmounts :
                    withdrawCall(accounts[n], amount, idCounter).error # NoError
              /\ \A c \in CustomerIds, to \in NamedAccounts,
                    amount \in TransferAmounts \cup LimitAmounts :
                    transferCall(accounts, customers[c], n, to, amount,
                                 idCounter).error # NoError)

(* A withdrawal denied on an account that has spent the day's limit. *)
C20_Witness ==
    /\ last.op = "withdraw"
    /\ last.error = WithdrawalDenied
    /\ Cardinality(AccountNumbers) = 1
    /\ \A n \in AccountNumbers :
          accounts[n].todayWithdrawn = dailyWithdrawalLimit

(* C21: in Customer.transfer a withdrawal leg that succeeds is always      *)
(* followed by a deposit leg that succeeds, so no transfer call ends with  *)
(* the source debited and the destination not credited; and every transfer *)
(* call, successful or failing, leaves every customer's total balance      *)
(* (getTotalBalance) as it was.                                            *)
C21_NoTransferGap ==
    /\ [][last'.op = "transfer" =>
            /\ \A c \in CustomerIds :
                  getTotalBalance(accounts', customers'[c])
                     = getTotalBalance(accounts, customers[c])
            /\ \A n \in AccountNumbers :
                  accounts'[n].balance < accounts[n].balance =>
                     /\ last'.error = NoError
                     /\ \E m \in AccountNumbers \ {n} :
                           accounts'[m].balance - accounts[m].balance
                              = accounts[n].balance - accounts'[n].balance
         ]_vars
    /\ [](\A c \in CustomerIds, X \in AccountNumbers, Y \in AccountNumbers,
             A \in TransferAmounts :
             (/\ HasAccount(customers[c], X) /\ HasAccount(customers[c], Y)
              /\ X # Y
              /\ withdrawCall(accounts[X], A, idCounter).error = NoError) =>
                /\ depositCall(accounts[Y], A, idCounter + 1).error = NoError
                /\ transferCall(accounts, customers[c], X, Y, A,
                                idCounter).error = NoError)

(* A transfer that moved 500 inside a customer's total of 600. *)
C21_Witness ==
    /\ last.op = "transfer"
    /\ last.ret = <<100, 500>>
    /\ \E c \in CustomerIds :
          /\ Len(customers[c].accounts) = 2
          /\ getTotalBalance(accounts, customers[c]) = 600

(* The customers under which account number n is registered, each as many *)
(* times as it is.                                                         *)
Registrations(n) ==
    {p \in CustomerIds \X (1..MaxAccounts + 1) :
        /\ p[2] \in DOMAIN customers[p[1]].accounts
        /\ customers[p[1]].accounts[p[2]] = n}

(* C22: every account has a number no other account has and is registered *)
(* under exactly one customer, its owner; a transfer in which a customer   *)
(* names an account that is not its own fails with AccountNotFound; and    *)
(* no openAccount or transfer of one customer changes the balance or the   *)
(* history of an account of another customer.                              *)
C22_CustomerIsolation ==
    /\ [](\A n \in AccountNumbers :
            /\ accounts[n].accountNumber = n
            /\ n < accountCounter
            /\ Cardinality(Registrations(n)) = 1
            /\ \A p \in Registrations(n) : accounts[n].customerId = p[1])
    /\ [](\A c \in CustomerIds :
            LET own == {n \in AccountNumbers : accounts[n].customerId = c} IN
            \A X \in NamedAccounts, Y \in NamedAccounts, A \in TransferAmounts :
               LET r == transferCall(accounts, customers[c], X, Y, A, idCounter)
               IN IF X \notin own \/ Y \notin own
                  THEN r = [error |-> AccountNotFound, heap |-> accounts,
                            made |-> 0]
                  ELSE \A n \in AccountNumbers \ own : r.heap[n] = accounts[n])
    /\ [][last'.op = "openAccount" =>
            /\ \A n \in AccountNumbers : accounts'[n] = accounts[n]
            /\ \A d \in CustomerIds :
                  customers'[d] # customers[d] =>
                     \A n \in DOMAIN accounts' \ DOMAIN accounts :
                        accounts'[n].customerId = d
         ]_vars

(* A transfer refused between the accounts of two customers. *)
C22_Witness ==
    /\ last.op = "transfer"
    /\ last.error = AccountNotFound
    /\ accountCounter = FirstAccountNumber + MaxAccounts
    /\ \A c \in CustomerIds : Len(customers[c].accounts) = 1
    /\ Len(customers) = 2

====
